---- MODULE Spec2Model ----
(***************************************************************************)
(* State-machine model of the Anki collection store of                     *)
(* src/mcp-server/anki_handler.py (class AnkiHandler), of the parser of    *)
(* src/mcp-server/flashcard_generator.py and of the tool dispatcher of     *)
(* src/mcp-server/server.py.                                               *)
(*                                                                         *)
(* The persisted SQLite file is modelled by its committed contents: the    *)
(* deck document of the single col row (col.decks), col.mod, and the rows  *)
(* of the notes and cards tables.  Every caller (a thread or a process     *)
(* that owns an AnkiHandler on the same collection path) runs one          *)
(* operation at a time; an operation is a sequence of storage statements   *)
(* (connect, SELECT, UPDATE, INSERT, commit), one model step each, with    *)
(* the local computation that follows a statement folded into its step.    *)
(* SQLite semantics that the code relies on are part of the model: writes  *)
(* are buffered in the connection's transaction until commit, one          *)
(* connection at a time holds the write lock, PRIMARY KEY constraints      *)
(* reject duplicate ids, and closing a connection with a pending           *)
(* transaction rolls it back.  The wall clock is taken not to run         *)
(* backwards.  A failing statement is an environment choice (Fault); the   *)
(* only failures the program causes by itself are the PRIMARY KEY          *)
(* collision of the time-plus-random note id and the UNIQUE collision of   *)
(* the guid derived from it.                                               *)
(*                                                                         *)
(* Specifications: Spec (one caller, every operation, on the store the     *)
(* constructor has created), SpecConc (two callers, create_deck and        *)
(* add_note), SpecNotes (two callers, add_note to the Default deck),       *)
(* SpecOpen (the constructor and get_decks on whatever is at the           *)
(* collection path), SpecTags (the tags string of add_note), SpecSort      *)
(* (the sort field and checksum of add_note), SpecParse (the validation    *)
(* of the language model's answer) and SpecTool (one call of call_tool,    *)
(* its handlers running the operations of the store as the one caller).    *)
(***************************************************************************)
EXTENDS Integers, Sequences, FiniteSets, TLC

\* ------------------------------------------------------------------ bounds
\* Largest value of the millisecond wall clock (time.time() * 1000).
MaxTime == 2
\* Largest random offset added to a note id; stands for randint(0, 999).
MaxJitter == 1
\* Number of storage statements the environment may make fail.
MaxFaults == 1
\* Number of calls of get_decks, create_deck and add_note the callers make;
\* add_notes_batch counts as one call of add_note per record.
MaxOps == 3

\* Number of values the 8 hex digits of a guid take; stands for 16^8.
GuidSpace == 2
\* hexdigest()[:8]
GuidLen == 8

\* Number of characters a front has beyond the padding that brings it near
\* the length of the sort field.
MaxTail == 2
\* Number of values the 8 hex digits of a checksum take; stands for 16^8.
CsumSpace == 251
\* front[:64]
SfldLen == 64

\* Largest number of entries of the array the language model returns.
MaxCards == 2

\* Largest number of tags of a note.
MaxTags == 3

\* The callers that may own a handler on the collection path.
AllProcs == {1, 2}

\* Deck names the callers use.  "Math" and "math" differ only in case.
Names == {"Default", "Math", "math"}

\* A batch record without the key "deck_name".
Absent == "<absent>"
\* The records add_notes_batch is given (front, back and tags do not
\* influence the control flow and are left out).
BatchRecords == {[deck_name |-> "Math"], [deck_name |-> Absent]}

VARIABLES
    decks,      \* col.decks: the persisted deck document, a set of entries
    colMod,     \* col.mod
    notes,      \* committed rows of table notes
    cards,      \* committed rows of table cards
    clock,      \* the latest value int(time.time() * 1000) has returned
    lock,       \* SQLite write lock: 0 free, p held by p's live connection,
                \* -p held by a connection of p that was never closed
    leaked,     \* per caller: connections opened and not closed by the code
    faults,     \* storage statements that have failed so far
    ops,        \* calls made so far, as counted by MaxOps
    proc,       \* per caller: program counter and locals of its operation
    prevCall,   \* history: the last completed top-level create_deck, while
                \* no other operation has started since
    file,       \* what is at collection_path: "missing", or a database file
                \* in one of the conditions of FileStates
    fn          \* the argument and the result of a computation of add_note
                \* that is examined by itself (SpecTags)

vars == <<decks, colMod, notes, cards, clock, lock, leaked, faults, ops, proc, prevCall,
          file, fn>>

\* ----------------------------------------------------------- pure helpers
Max(S) == CHOOSE x \in S : \A y \in S : y <= x
Min(S) == CHOOSE x \in S : \A y \in S : x <= y

\* decks_data.keys() as integers
DeckKeys(dd) == {e.key : e \in dd}

\* Faulty variant: the lookup by name never matches.
Matching_None(dd, deck_name) == {}

\* the entries whose name is exactly deck_name (lines 182-183)
Matching(dd, deck_name) == {e \in dd : e.name = deck_name}

\* Faulty variant: the position of the match in the document is returned
\* instead of its key.
FindDeck_Index(dd, deck_name) ==
    Cardinality({e \in dd : e.key < Min({m.key : m \in Matching(dd, deck_name)})})

\* for deck_id, deck in decks_data.items(): first match, in document order
FindDeck(dd, deck_name) == Min({e.key : e \in Matching(dd, deck_name)})

\* new_deck_id = max([int(did) for did in decks_data.keys()]) + 1
\* Faulty variant: the largest id is reused (the + 1 is missing).
NewDeckId_NoIncrement(dd) == Max(DeckKeys(dd))

NewDeckId(dd) == Max(DeckKeys(dd)) + 1

\* Faulty variant: the document is replaced by the new entry alone.
PutDeck_Only(dd, k, deck_name, now) ==
    {[key |-> k, id |-> k, name |-> deck_name, mod |-> now]}

\* decks_data[str(new_deck_id)] = {"id": ..., "name": ..., "mod": now}
PutDeck(dd, k, deck_name, now) ==
    {e \in dd : e.key # k} \cup {[key |-> k, id |-> k, name |-> deck_name, mod |-> now]}

\* int(time.time() * 1000): the wall clock does not run backwards; reading
\* it yields the latest value read or a later one.
Times == clock..MaxTime

\* default_decks = {"1": {"id": 1, "name": "Default", "mod": now}}
DefaultDecks(now) == {[key |-> 1, id |-> 1, name |-> "Default", mod |-> now]}

\* The code points of the deck names in use (str comparison in sorted()
\* is by code point).
CodePoints(name) ==
    CASE name = "Default" -> <<68, 101, 102, 97, 117, 108, 116>>
      [] name = "Math"    -> <<77, 97, 116, 104>>
      [] name = "math"    -> <<109, 97, 116, 104>>
      [] OTHER            -> <<>>

\* a < b for two lists of code points (Python's str.__lt__)
RECURSIVE LexLess(_, _)
LexLess(a, b) ==
    IF b = <<>> THEN FALSE
    ELSE IF a = <<>> THEN TRUE
    ELSE IF Head(a) # Head(b) THEN Head(a) < Head(b)
    ELSE LexLess(Tail(a), Tail(b))

StrLess(x, y) == LexLess(CodePoints(x), CodePoints(y))

\* insert x into the ascending list l, after the elements not greater
RECURSIVE InsertSorted(_, _)
InsertSorted(x, l) ==
    IF l = <<>> THEN <<x>>
    ELSE IF StrLess(x, Head(l)) THEN <<x>> \o l
    ELSE <<Head(l)>> \o InsertSorted(x, Tail(l))

\* Faulty variant: the names are returned in document order.
Sorted_DocumentOrder(l) == l

\* sorted(deck_names)
RECURSIVE Sorted(_)
Sorted(l) == IF l = <<>> THEN <<>> ELSE InsertSorted(Head(l), Sorted(Tail(l)))

\* [deck["name"] for deck in decks_data.values()], in document order
RECURSIVE DeckNames(_)
DeckNames(dd) ==
    IF dd = {} THEN <<>>
    ELSE LET e == CHOOSE x \in dd : x.key = Min(DeckKeys(dd))
         IN <<e.name>> \o DeckNames(dd \ {e})

NoTxn == [active |-> FALSE, writesDecks |-> FALSE, decks |-> {}, mod |-> 0,
          notes |-> {}, cards |-> {}]
NoRet == [kind |-> "none", val |-> 0, names |-> <<>>, ids |-> <<>>]
NoCall == [name |-> "", val |-> 0, n0 |-> 0, n1 |-> 0, existed |-> FALSE]
NoAdded == [notes |-> {}, cards |-> {}]
NoStore == [file |-> "", decks |-> {}, mod |-> 0]

\* Optional[List[str]]: None, or a list.  A str is the list of its
\* characters.
None == [some |-> FALSE, val |-> <<>>]
Some(l) == [some |-> TRUE, val |-> l]
NoFn == [pc |-> "none", tags |-> None, tags_str |-> <<>>]

\* The conditions of a database file at collection_path: "empty" has no
\* tables (sqlite3.connect has created it), "norow" has the three tables and
\* no col row, "ok" has the col row with the deck document, "corrupt" has a
\* col row whose decks column is not a JSON document of decks.
FileStates == {"empty", "norow", "ok", "corrupt"}

\* The locals of a caller.  top is the operation the caller invoked; the
\* fields from ret on are history kept for the properties: the result of the
\* call, the rows its commit added, the preceding create_deck call, the size
\* of the deck document and the tables' rows when the call started, the
\* statement at which it failed, and (store0) the file, the deck document
\* and col.mod when a call started that has nothing to write.
IdleProc ==
    [pc |-> "idle", top |-> "none", deck_name |-> "", decks_data |-> {},
     new_deck_id |-> 0, now |-> 0, deck_id |-> 0, note_id |-> 0,
     conn |-> FALSE, txn |-> NoTxn, batch |-> <<>>, input |-> <<>>,
     note_ids |-> <<>>, attempts |-> 0, ret |-> NoRet, added |-> NoAdded,
     prev |-> NoCall, n0 |-> 0, existed |-> FALSE, failed_at |-> "",
     notes0 |-> {}, cards0 |-> {}, store0 |-> NoStore]

\* ------------------------------------------------------------------- Init
\* AnkiHandler.__init__ on a nonexistent path: _create_empty_collection
Init ==
    /\ clock = 1
    /\ decks = DefaultDecks(1)
    /\ colMod = 1
    /\ notes = {}
    /\ cards = {}
    /\ lock = 0
    /\ leaked = [p \in AllProcs |-> 0]
    /\ faults = 0
    /\ ops = 0
    /\ proc = [p \in AllProcs |-> IdleProc]
    /\ prevCall = NoCall
    /\ file = "ok"
    /\ fn = NoFn

\* -------------------------------------------------------- call and return
OkVal(v) == [NoRet EXCEPT !.kind = "ok", !.val = v]
OkNames(l) == [NoRet EXCEPT !.kind = "ok", !.names = l]
OkIds(l) == [NoRet EXCEPT !.kind = "ok", !.ids = l]
Raised == [NoRet EXCEPT !.kind = "raise"]

\* note.get("deck_name", "Default")
NoteGet(rec) == IF rec.deck_name = Absent THEN "Default" ELSE rec.deck_name

\* return note_id from add_note: to the caller of the store, or back into
\* the loop of add_notes_batch (note_ids.append(note_id))
AnReturn(me, id) ==
    IF me.top = "add_notes_batch"
    THEN [me EXCEPT !.pc = "b_loop", !.note_ids = Append(@, id), !.batch = Tail(@),
                    !.now = 0]
    ELSE [me EXCEPT !.pc = "idle", !.ret = OkVal(id), !.now = 0]

\* return from create_deck: to the caller of the store, or into add_note
\* (deck_id = self.create_deck(deck_name))
CdReturn(me, id) ==
    IF me.top = "create_deck"
    THEN [me EXCEPT !.pc = "idle", !.ret = OkVal(id), !.now = 0]
    ELSE [me EXCEPT !.pc = "an_connect", !.deck_id = id,
                    !.decks_data = {}, !.new_deck_id = 0, !.now = 0]

\* Faulty variant: add_notes_batch catches the exception of a record and
\* goes on with the next one.
RaiseRec_SkipRecord(me) ==
    IF me.top = "add_notes_batch"
    THEN [me EXCEPT !.pc = "b_loop", !.conn = FALSE, !.txn = NoTxn, !.batch = Tail(@),
                    !.decks_data = {}, !.new_deck_id = 0, !.now = 0]
    ELSE [me EXCEPT !.pc = "idle", !.conn = FALSE, !.txn = NoTxn,
                    !.decks_data = {}, !.new_deck_id = 0, !.now = 0,
                    !.failed_at = me.pc,
                    !.ret = IF me.top = "get_decks" THEN OkNames(<<"Default">>) ELSE Raised]

\* Faulty variant: the except clauses of the write operations return the
\* id of the Default deck instead of raising.
RaiseRec_Fallback(me) ==
    [me EXCEPT !.pc = "idle", !.conn = FALSE, !.txn = NoTxn,
               !.decks_data = {}, !.new_deck_id = 0, !.now = 0,
               !.failed_at = me.pc,
               !.ret = IF me.top = "get_decks" THEN OkNames(<<"Default">>) ELSE OkVal(1)]

\* Faulty variant: get_decks lets the exception reach its caller, as the
\* write operations do.
RaiseRec_Propagate(me) ==
    [me EXCEPT !.pc = "idle", !.conn = FALSE, !.txn = NoTxn,
               !.decks_data = {}, !.new_deck_id = 0, !.now = 0,
               !.failed_at = me.pc,
               !.ret = Raised]

\* An exception leaves the operation.  No except clause closes the
\* connection: "raise" in create_deck and add_note propagates to the caller
\* (add_notes_batch has no handler), get_decks returns ["Default"].
RaiseRec(me) ==
    [me EXCEPT !.pc = "idle", !.conn = FALSE, !.txn = NoTxn,
               !.decks_data = {}, !.new_deck_id = 0, !.now = 0,
               !.failed_at = me.pc,
               !.ret = IF me.top = "get_decks" THEN OkNames(<<"Default">>) ELSE Raised]

\* The connection of a call that raises is referenced by the traceback of
\* the exception the caller now holds: it stays open, with its transaction
\* and its write lock, until the runtime finalizes it.  get_decks returns
\* instead of raising; its frame, and with it the connection (which has
\* written nothing), is released on return.
KeepsConnection(me) == me.conn /\ me.top # "get_decks"

Raise(p) ==
    /\ proc' = [proc EXCEPT ![p] = RaiseRec(proc[p])]
    /\ leaked' = [leaked EXCEPT ![p] = IF KeepsConnection(proc[p]) THEN @ + 1 ELSE @]
    /\ lock' = IF lock = p THEN -p ELSE lock

OthersIdle(p) == \A q \in AllProcs \ {p} : proc[q].pc = "idle"

\* --------------------------------------------------------- operation start
\* A caller makes its next call after it has dropped the exception of the
\* previous one, which is when the runtime (reference counting) finalizes
\* the connection that call left open.
Cost(recs) == IF recs = <<>> THEN 1 ELSE Len(recs)

\* The calls that have nothing to write: the constructor on an existing
\* file and create_deck for a name that is in the deck document.
Snapshot(top, deck_name) ==
    IF \/ top = "construct" /\ file # "missing"
       \/ top = "create_deck" /\ \E e \in decks : e.name = deck_name
    THEN [file |-> file, decks |-> decks, mod |-> colMod]
    ELSE NoStore

Begin(p, top, pc, deck_name, recs) ==
    /\ proc[p].pc = "idle"
    /\ leaked[p] = 0
    /\ ops + Cost(recs) <= MaxOps
    /\ ops' = ops + Cost(recs)
    /\ proc' = [proc EXCEPT ![p] =
           [IdleProc EXCEPT !.top = top, !.pc = pc, !.deck_name = deck_name,
                            !.input = recs, !.batch = recs,
                            !.prev = prevCall, !.n0 = Cardinality(decks),
                            !.existed = \E e \in decks : e.name = deck_name,
                            !.notes0 = notes, !.cards0 = cards,
                            !.store0 = Snapshot(top, deck_name)]]
    /\ prevCall' = NoCall
    /\ UNCHANGED <<file, fn, decks, colMod, notes, cards, clock, lock, leaked, faults>>

CallGetDecks(p) == Begin(p, "get_decks", "gd_connect", "", <<>>)
CallCreateDeck(p) == \E n \in Names : Begin(p, "create_deck", "cd_connect", n, <<>>)
\* add_note starts with deck_id = self.create_deck(deck_name)
CallAddNote(p) == \E n \in Names : Begin(p, "add_note", "cd_connect", n, <<>>)
CallAddNotesBatch(p) ==
    \E len \in 0..MaxOps : \E recs \in [1..len -> BatchRecords] :
        Begin(p, "add_notes_batch", "b_loop", "", recs)

\* ------------------------------------------------------------ constructor
\* AnkiHandler(collection_path)
CallConstruct(p) == Begin(p, "construct", "ensure", "", <<>>)

\* Faulty variant: the collection is created whether or not the file exists.
EnsureCollectionExists_Always(p) ==
    /\ proc[p].pc = "ensure"
    /\ proc' = [proc EXCEPT ![p].pc = "ce_tables", ![p].conn = TRUE]
    /\ file' = IF file = "missing" THEN "empty" ELSE file
    /\ UNCHANGED <<fn, decks, colMod, notes, cards, clock, lock, leaked, faults, ops, prevCall>>

\* ensure_collection_exists: os.makedirs; if the file exists the
\* constructor returns; if not, _create_empty_collection starts with
\* sqlite3.connect, which creates the file
EnsureCollectionExists(p) ==
    /\ proc[p].pc = "ensure"
    /\ IF file # "missing"
       THEN /\ proc' = [proc EXCEPT ![p].pc = "idle", ![p].ret = OkVal(0)]
            /\ file' = file
       ELSE /\ proc' = [proc EXCEPT ![p].pc = "ce_tables", ![p].conn = TRUE]
            /\ file' = "empty"
    /\ UNCHANGED <<fn, decks, colMod, notes, cards, clock, lock, leaked, faults, ops, prevCall>>

\* CREATE TABLE IF NOT EXISTS col, notes, cards: data definition statements
\* run outside a transaction and are durable at once; existing tables and
\* their rows stay as they are
CeTables(p) ==
    /\ proc[p].pc = "ce_tables"
    /\ proc' = [proc EXCEPT ![p].pc = "ce_insert"]
    /\ file' = IF file = "empty" THEN "norow" ELSE file
    /\ UNCHANGED <<fn, decks, colMod, notes, cards, clock, lock, leaked, faults, ops, prevCall>>

\* now = int(time.time() * 1000); INSERT INTO col (id, ...) VALUES (1, ...);
\* conn.commit(); conn.close(): id INTEGER PRIMARY KEY rejects a second row 1
CeInsert(p) ==
    /\ proc[p].pc = "ce_insert"
    /\ lock = 0
    /\ IF file # "norow"
       THEN /\ proc' = [proc EXCEPT ![p] = RaiseRec(proc[p])]
            /\ leaked' = [leaked EXCEPT ![p] = @ + 1]
            /\ lock' = -p
            /\ UNCHANGED <<file, decks, colMod, clock>>
       ELSE /\ \E t \in Times :
                /\ clock' = t
                /\ decks' = DefaultDecks(t)
                /\ colMod' = t
            /\ file' = "ok"
            /\ proc' = [proc EXCEPT ![p].pc = "idle", ![p].conn = FALSE,
                                    ![p].ret = OkVal(0)]
            /\ UNCHANGED <<leaked, lock>>
    /\ UNCHANGED <<fn, notes, cards, faults, ops, prevCall>>

\* ------------------------------------------------------------- get_decks
\* conn = sqlite3.connect(self.collection_path)
GdConnect(p) ==
    /\ proc[p].pc = "gd_connect"
    /\ proc' = [proc EXCEPT ![p].pc = "gd_select", ![p].conn = TRUE]
    /\ UNCHANGED <<file, fn, decks, colMod, notes, cards, clock, lock, leaked, faults, ops, prevCall>>

\* SELECT decks FROM col WHERE id = 1 (no table col: an exception);
\* conn.close(); no row: return ["Default"]; json.loads and the extraction
\* of the names (not a document of decks: an exception);
\* return sorted(deck_names)
GdSelect(p) ==
    /\ proc[p].pc = "gd_select"
    /\ proc' = [proc EXCEPT ![p] =
           CASE file = "ok" ->
                    [proc[p] EXCEPT !.pc = "idle", !.conn = FALSE,
                                    !.ret = OkNames(Sorted(DeckNames(decks)))]
             [] file = "norow" ->
                    [proc[p] EXCEPT !.pc = "idle", !.conn = FALSE,
                                    !.ret = OkNames(<<"Default">>)]
             [] OTHER -> RaiseRec(proc[p])]
    /\ UNCHANGED <<file, fn, decks, colMod, notes, cards, clock, lock, leaked, faults, ops, prevCall>>

\* ----------------------------------------------------------- create_deck
\* conn = sqlite3.connect(self.collection_path)
CdConnect(p) ==
    /\ proc[p].pc = "cd_connect"
    /\ proc' = [proc EXCEPT ![p].pc = "cd_select", ![p].conn = TRUE]
    /\ UNCHANGED <<file, fn, decks, colMod, notes, cards, clock, lock, leaked, faults, ops, prevCall>>

\* The record of a top-level create_deck that has returned id.
Completed(me, id, n1) ==
    [name |-> me.deck_name, val |-> id, n0 |-> me.n0, n1 |-> n1,
     existed |-> me.existed]

NextPrevCall(p, id, n1) ==
    IF proc[p].top = "create_deck" /\ OthersIdle(p)
    THEN Completed(proc[p], id, n1)
    ELSE prevCall

\* Faulty variant: a lookup that finds the deck stamps col.mod before it
\* returns.
CdSelect_Touch(p) ==
    /\ proc[p].pc = "cd_select"
    /\ LET me == proc[p] IN
       IF Matching(decks, me.deck_name) # {}
       THEN /\ proc' = [proc EXCEPT ![p] =
                   CdReturn([me EXCEPT !.conn = FALSE],
                            FindDeck(decks, me.deck_name))]
            /\ prevCall' = NextPrevCall(p, FindDeck(decks, me.deck_name), Cardinality(decks))
            /\ \E t \in Times : clock' = t /\ colMod' = t
       ELSE /\ \E t \in Times :
                /\ clock' = t
                /\ proc' = [proc EXCEPT ![p] =
                       [me EXCEPT !.pc = "cd_update",
                                  !.new_deck_id = NewDeckId(decks),
                                  !.now = t,
                                  !.decks_data = decks]]
            /\ prevCall' = prevCall
            /\ colMod' = colMod
    /\ UNCHANGED <<file, fn, decks, notes, cards, lock, leaked, faults, ops>>

\* SELECT decks, mod FROM col WHERE id = 1, then the lookup by name: an
\* existing deck closes the connection and returns its id; otherwise the
\* new id, now and the new entry are computed
CdSelect(p) ==
    /\ proc[p].pc = "cd_select"
    /\ LET me == proc[p] IN
       IF Matching(decks, me.deck_name) # {}
       THEN /\ proc' = [proc EXCEPT ![p] =
                   CdReturn([me EXCEPT !.conn = FALSE],
                            FindDeck(decks, me.deck_name))]
            /\ prevCall' = NextPrevCall(p, FindDeck(decks, me.deck_name), Cardinality(decks))
            /\ clock' = clock
       ELSE /\ \E t \in Times :
                /\ clock' = t
                /\ proc' = [proc EXCEPT ![p] =
                       [me EXCEPT !.pc = "cd_update",
                                  !.new_deck_id = NewDeckId(decks),
                                  !.now = t,
                                  !.decks_data = decks]]
            /\ prevCall' = prevCall
    /\ UNCHANGED <<file, fn, decks, colMod, notes, cards, lock, leaked, faults, ops>>

\* UPDATE col SET decks = ?, mod = ? WHERE id = 1: begins the transaction
\* and takes the write lock
CdUpdate(p) ==
    /\ proc[p].pc = "cd_update"
    /\ lock = 0
    /\ lock' = p
    /\ proc' = [proc EXCEPT ![p].pc = "cd_commit",
                            ![p].txn = [NoTxn EXCEPT !.active = TRUE, !.writesDecks = TRUE,
                                                     !.decks = PutDeck(proc[p].decks_data,
                                                         proc[p].new_deck_id,
                                                         proc[p].deck_name, proc[p].now),
                                                     !.mod = proc[p].now]]
    /\ UNCHANGED <<file, fn, decks, colMod, notes, cards, clock, leaked, faults, ops, prevCall>>

\* conn.commit(); conn.close(); return new_deck_id
CdCommit(p) ==
    /\ proc[p].pc = "cd_commit"
    /\ decks' = proc[p].txn.decks
    /\ colMod' = proc[p].txn.mod
    /\ lock' = 0
    /\ proc' = [proc EXCEPT ![p] =
           CdReturn([proc[p] EXCEPT !.conn = FALSE, !.txn = NoTxn], proc[p].new_deck_id)]
    /\ prevCall' = NextPrevCall(p, proc[p].new_deck_id, Cardinality(proc[p].txn.decks))
    /\ UNCHANGED <<file, fn, notes, cards, clock, leaked, faults, ops>>

\* -------------------------------------------------------------- add_note
NoteIds(rows) == {r.id : r \in rows}
CardIds(rows) == {r.id : r \in rows}

\* card_id = note_id + 1
CardId(note_id) == note_id + 1

\* The n hexadecimal digits of v, most significant first.
HexDigits(v, n) == [i \in 1..n |-> (v \div (16 ^ (n - i))) % 16]

\* guid = hashlib.sha256(f"{note_id}{front}{back}".encode()).hexdigest()[:8]
\* The callers pass the same front and back; the digest is a function of
\* the note id onto GuidSpace values, so that different ids may collide.
Guid(note_id) == HexDigits(note_id % GuidSpace, GuidLen)

Guids(rows) == {r.guid : r \in rows}

\* the row of INSERT INTO notes: (note_id, guid, 1, now, 0, tags_str, ...)
NoteRow(note_id, now) == [id |-> note_id, guid |-> Guid(note_id), mod |-> now]

\* Faulty variant: the guid column is not declared UNIQUE.
NoteRejected_IdOnly(row, rows) == row.id \in NoteIds(rows)

\* id INTEGER PRIMARY KEY, guid TEXT NOT NULL UNIQUE: the INSERT of a row
\* whose id or guid is stored raises sqlite3.IntegrityError
NoteRejected(row, rows) == row.id \in NoteIds(rows) \/ row.guid \in Guids(rows)

\* Faulty variant: the card is filed under the Default deck.
CardRow_DefaultDeck(note_id, deck_id, now) ==
    [id |-> CardId(note_id), nid |-> note_id, did |-> 1, mod |-> now]

\* the row of INSERT INTO cards: (card_id, note_id, deck_id, 0, now, 0, ...)
CardRow(note_id, deck_id, now) ==
    [id |-> CardId(note_id), nid |-> note_id, did |-> deck_id, mod |-> now]

\* conn = sqlite3.connect(...); note_id = int(time.time() * 1000) +
\* random.randint(0, 999); ...; now = int(time.time() * 1000)
AnConnect(p) ==
    /\ proc[p].pc = "an_connect"
    /\ \E r \in 0..MaxJitter : \E t1 \in Times : \E t2 \in t1..MaxTime :
        /\ clock' = t2
        /\ proc' = [proc EXCEPT ![p].pc = "an_insert_note", ![p].conn = TRUE,
                                ![p].note_id = t1 + r, ![p].now = t2]
    /\ UNCHANGED <<file, fn, decks, colMod, notes, cards, lock, leaked, faults, ops, prevCall>>

\* Faulty variant: the connection is in autocommit mode, the note row is
\* committed by its INSERT.
AnInsertNote_Autocommit(p) ==
    /\ proc[p].pc = "an_insert_note"
    /\ lock = 0
    /\ IF NoteRejected(NoteRow(proc[p].note_id, proc[p].now), notes)
       THEN /\ proc' = [proc EXCEPT ![p] = RaiseRec(proc[p])]
            /\ leaked' = [leaked EXCEPT ![p] = @ + 1]
            /\ lock' = -p
            /\ notes' = notes
       ELSE /\ proc' = [proc EXCEPT ![p].pc = "an_insert_card",
                            ![p].txn = [NoTxn EXCEPT !.active = TRUE]]
            /\ notes' = notes \cup {NoteRow(proc[p].note_id, proc[p].now)}
            /\ leaked' = leaked
            /\ lock' = p
    /\ UNCHANGED <<file, fn, decks, colMod, cards, clock, faults, ops, prevCall>>

\* INSERT INTO notes ...: begins the transaction and takes the write lock;
\* a row that the constraints of the table reject raises
AnInsertNote(p) ==
    /\ proc[p].pc = "an_insert_note"
    /\ lock = 0
    /\ IF NoteRejected(NoteRow(proc[p].note_id, proc[p].now), notes)
       THEN /\ proc' = [proc EXCEPT ![p] = RaiseRec(proc[p])]
            /\ leaked' = [leaked EXCEPT ![p] = @ + 1]
            /\ lock' = -p
       ELSE /\ proc' = [proc EXCEPT ![p].pc = "an_insert_card",
                            ![p].txn = [NoTxn EXCEPT !.active = TRUE,
                                !.notes = {NoteRow(proc[p].note_id, proc[p].now)}]]
            /\ leaked' = leaked
            /\ lock' = p
    /\ UNCHANGED <<file, fn, decks, colMod, notes, cards, clock, faults, ops, prevCall>>

\* INSERT INTO cards ...: id INTEGER PRIMARY KEY
AnInsertCard(p) ==
    /\ proc[p].pc = "an_insert_card"
    /\ IF CardId(proc[p].note_id) \in CardIds(cards)
       THEN Raise(p)
       ELSE /\ proc' = [proc EXCEPT ![p].pc = "an_update_col",
                            ![p].txn.cards = {CardRow(proc[p].note_id, proc[p].deck_id,
                                                      proc[p].now)}]
            /\ UNCHANGED <<leaked, lock>>
    /\ UNCHANGED <<file, fn, decks, colMod, notes, cards, clock, faults, ops, prevCall>>

\* UPDATE col SET mod = ? WHERE id = 1
AnUpdateCol(p) ==
    /\ proc[p].pc = "an_update_col"
    /\ proc' = [proc EXCEPT ![p].pc = "an_commit", ![p].txn.mod = proc[p].now]
    /\ UNCHANGED <<file, fn, decks, colMod, notes, cards, clock, lock, leaked, faults, ops, prevCall>>

\* conn.commit(); conn.close(); return note_id
AnCommit(p) ==
    /\ proc[p].pc = "an_commit"
    /\ notes' = notes \cup proc[p].txn.notes
    /\ cards' = cards \cup proc[p].txn.cards
    /\ colMod' = proc[p].txn.mod
    /\ lock' = 0
    /\ proc' = [proc EXCEPT ![p] =
           AnReturn([proc[p] EXCEPT !.conn = FALSE, !.txn = NoTxn,
                                    !.added = [notes |-> notes' \ notes,
                                               cards |-> cards' \ cards]],
                    proc[p].note_id)]
    /\ UNCHANGED <<file, fn, decks, clock, leaked, faults, ops, prevCall>>

\* tags or []
TagsOrEmpty(tags) == IF tags.some /\ tags.val # <<>> THEN tags.val ELSE <<>>

\* sep.join(l)
RECURSIVE Join(_, _)
Join(sep, l) ==
    IF l = <<>> THEN <<>>
    ELSE IF Len(l) = 1 THEN Head(l)
    ELSE Head(l) \o sep \o Join(sep, Tail(l))

\* Faulty variant: the tags are joined without the space before the first
\* and after the last.
TagsStr_Bare(tags) == Join(<<" ">>, TagsOrEmpty(tags))

\* tags_str = " " + " ".join(tags or []) + " "
TagsStr(tags) == <<" ">> \o Join(<<" ">>, TagsOrEmpty(tags)) \o <<" ">>

\* The statement of add_note that computes tags_str, the value stored in
\* notes.tags.  It reads and writes nothing but its argument and result,
\* and no statement depends on its result: the operations above leave it
\* out.
AnTagsStr ==
    /\ fn.pc = "call"
    /\ fn' = [fn EXCEPT !.pc = "stored", !.tags_str = TagsStr(fn.tags)]
    /\ UNCHANGED <<file, decks, colMod, notes, cards, clock, lock, leaked, faults, ops, proc,
                   prevCall>>

\* str.encode(): the UTF-8 bytes of a character ("a" is U+0061, one byte;
\* "\u00e9" is written "e'" here and is two bytes)
Utf8Char(c) ==
    CASE c = "a"  -> <<97>>
      [] c = "e'" -> <<195, 169>>
      [] c = "p"  -> <<112>>
      [] c = "q"  -> <<113>>
      [] OTHER    -> <<63>>

\* the bytes of the characters lo..hi of str, in order
RECURSIVE Utf8Of(_, _, _)
Utf8Of(str, lo, hi) ==
    IF lo > hi THEN <<>>
    ELSE IF lo = hi THEN Utf8Char(str[lo])
    ELSE LET mid == (lo + hi) \div 2
         IN Utf8Of(str, lo, mid) \o Utf8Of(str, mid + 1, hi)

Utf8(str) == Utf8Of(str, 1, Len(str))

\* The sum over the bytes lo..hi of each byte times a weight that depends
\* on its position.
RECURSIVE Weighted(_, _, _)
Weighted(bytes, lo, hi) ==
    IF lo > hi THEN 0
    ELSE IF lo = hi THEN ((lo % 7) + 1) * bytes[lo]
    ELSE LET mid == (lo + hi) \div 2
         IN Weighted(bytes, lo, mid) + Weighted(bytes, mid + 1, hi)

\* The digest of a byte string: a function of all its bytes and of their
\* positions onto CsumSpace values, so that different strings may collide.
Digest(bytes) == (7 + Weighted(bytes, 1, Len(bytes))) % CsumSpace

\* hashlib.sha1(b).hexdigest()[:8]
Sha1Hex8(bytes) == HexDigits(Digest(bytes), 8)

\* int(digits, 16)
RECURSIVE HexValue(_)
HexValue(digits) ==
    IF digits = <<>> THEN 0
    ELSE 16 * HexValue(SubSeq(digits, 1, Len(digits) - 1)) + digits[Len(digits)]

\* Faulty variant: the front is stored as the sort field without truncation.
SortField_Whole(front) == front

\* sfld = front[:64] if len(front) > 64 else front
SortField(front) == IF Len(front) > SfldLen THEN SubSeq(front, 1, SfldLen) ELSE front

\* csum = int(hashlib.sha1(sfld.encode()).hexdigest()[:8], 16)
Checksum(sfld) == HexValue(Sha1Hex8(Utf8(sfld)))

\* fields = f"{front}\x1f{back}"
Fields(front, back) == front \o <<"\\x1f">> \o back

\* The statements of add_note that compute fields, sfld and csum, the
\* values stored in notes.flds, notes.sfld and notes.csum, for the i-th of
\* two calls.  No other statement depends on their results: the
\* operations above leave them out.
AnSortField(i) ==
    /\ fn.pc = "sort"
    /\ ~fn.notes[i].done
    /\ fn' = [fn EXCEPT !.notes[i].done = TRUE,
                        !.notes[i].flds = Fields(fn.notes[i].front, fn.notes[i].back),
                        !.notes[i].sfld = SortField(fn.notes[i].front),
                        !.notes[i].csum = Checksum(SortField(fn.notes[i].front))]
    /\ UNCHANGED <<file, decks, colMod, notes, cards, clock, lock, leaked, faults, ops, proc,
                   prevCall>>

\* ------------------------------------------------------- add_notes_batch
\* for note in notes: note_id = self.add_note(...); return note_ids
BLoop(p) ==
    /\ proc[p].pc = "b_loop"
    /\ IF proc[p].batch = <<>>
       THEN proc' = [proc EXCEPT ![p].pc = "idle", ![p].ret = OkIds(proc[p].note_ids)]
       ELSE proc' = [proc EXCEPT ![p].pc = "cd_connect",
                                 ![p].deck_name = NoteGet(Head(proc[p].batch)),
                                 ![p].attempts = @ + 1,
                                 ![p].notes0 = notes, ![p].cards0 = cards]
    /\ UNCHANGED <<file, fn, decks, colMod, notes, cards, clock, lock, leaked, faults, ops, prevCall>>

\* ----------------------------------------------- FlashcardGenerator
\* A JSON value as json.loads returns it: a str, None, or a list of str;
\* JAbsent stands for a key that the object does not have.
JStr(x) == [t |-> "str", s |-> x, l |-> <<>>]
JNull == [t |-> "null", s |-> "", l |-> <<>>]
JList(x) == [t |-> "list", s |-> "", l |-> x]
JAbsent == [t |-> "absent", s |-> "", l |-> <<>>]

\* str(value)
PyStr(j) ==
    CASE j.t = "str"  -> j.s
      [] j.t = "null" -> "None"
      [] OTHER        -> "[...]"

\* An entry of the array that is no JSON object.
NotADict == [obj |-> FALSE, front |-> JAbsent, back |-> JAbsent, deck_name |-> JAbsent,
             tags |-> JAbsent]

\* isinstance(card, dict) and "front" in card and "back" in card
Kept(card) == card.obj /\ card.front.t # "absent" /\ card.back.t # "absent"

\* validated_card = {"front": str(card["front"]), "back": str(card["back"]),
\* "deck_name": str(card.get("deck_name", "Default")),
\* "tags": card.get("tags", [])}, tags replaced by [] if it is not a list
ValidatedCard(card) ==
    [front |-> PyStr(card.front),
     back |-> PyStr(card.back),
     deck_name |-> IF card.deck_name.t = "absent" THEN "Default" ELSE PyStr(card.deck_name),
     tags |-> IF card.tags.t = "list" THEN card.tags.l ELSE <<>>]

\* the loop over flashcards: entries that are not kept are skipped
RECURSIVE ValidatedCards(_)
ValidatedCards(flashcards) ==
    IF flashcards = <<>> THEN <<>>
    ELSE IF Kept(Head(flashcards))
         THEN <<ValidatedCard(Head(flashcards))>> \o ValidatedCards(Tail(flashcards))
         ELSE ValidatedCards(Tail(flashcards))

\* _parse_flashcards, after the code fences are stripped: json.loads of
\* text that is no JSON raises ValueError, as does a document that is no
\* array; an array yields the validated cards.
ParseFlashcards ==
    /\ fn.pc = "parse"
    /\ fn' = [fn EXCEPT !.pc = "parsed",
                        !.out = IF fn.doc.kind = "array"
                                THEN [kind |-> "ok", cards |-> ValidatedCards(fn.doc.entries)]
                                ELSE [kind |-> "raise", cards |-> <<>>]]
    /\ UNCHANGED <<file, decks, colMod, notes, cards, clock, lock, leaked, faults, ops, proc,
                   prevCall>>

\* ------------------------------------------------------ AnkiFlashcardMCP
\* The server is the one caller (1) of the store.  A call of a store
\* operation by a handler: the caller's locals as the operation starts.
InCall(top, pc, deck_name) ==
    [IdleProc EXCEPT !.top = top, !.pc = pc, !.deck_name = deck_name,
                     !.prev = prevCall, !.n0 = Cardinality(decks),
                     !.existed = \E e \in decks : e.name = deck_name,
                     !.notes0 = notes, !.cards0 = cards,
                     !.store0 = Snapshot(top, deck_name)]

\* self.anki.<operation>(...): made once the exception of the previous
\* call, if any, has been dropped
Invoke(top, pc, deck_name) ==
    /\ proc[1].pc = "idle"
    /\ leaked[1] = 0
    /\ proc' = [proc EXCEPT ![1] = InCall(top, pc, deck_name)]
    /\ prevCall' = NoCall
    /\ UNCHANGED <<file, decks, colMod, notes, cards, clock, lock, leaked, faults, ops>>

\* The store operation the handler waits for has returned or raised.
Back == proc[1].pc = "idle" /\ proc[1].ret.kind # "none"

\* A TextContent: how its text begins, the message or the deck name that
\* follows, the number it reports, and the deck names it lists.
Text(head, msg, n, names) == [head |-> head, msg |-> msg, n |-> n, names |-> names]

NoResult == [kind |-> "none", content |-> <<>>]
\* return [TextContent(type="text", text=...)]
Return(text) == [kind |-> "return", content |-> <<text>>]

\* Faulty variant: call_tool has no except clause.
Caught_Propagate(e) == [kind |-> "raise", content |-> <<>>]

\* except Exception as e: return [TextContent(text=f"Error: {str(e)}")]
Caught(e) == Return(Text("Error: ", e, 0, <<>>))

\* raise inside a handler; the handler's own except clause logs and
\* re-raises, so the exception reaches call_tool
RaiseIn(f, e) == [f EXCEPT !.pc = "except", !.exc = e]

\* not value: the key is missing or the text is empty
Missing(value) == value = Absent \/ value = ""

\* call_tool: the if/elif chain over the tool name
CallTool ==
    /\ fn.pc = "call_tool"
    /\ fn' = CASE fn.name = "list_anki_decks" ->
                      [fn EXCEPT !.pc = "list_decks", !.handlers = Append(@, "list_decks")]
               [] fn.name = "generate_flashcards" ->
                      [fn EXCEPT !.pc = "generate", !.handlers = Append(@, "generate")]
               [] fn.name = "create_anki_deck" ->
                      [fn EXCEPT !.pc = "create_deck", !.handlers = Append(@, "create_deck")]
               [] OTHER -> RaiseIn(fn, "Unknown tool")
    /\ UNCHANGED <<file, decks, colMod, notes, cards, clock, lock, leaked, faults, ops, proc,
                   prevCall>>

\* call_tool: the except clause
CallToolExcept ==
    /\ fn.pc = "except"
    /\ fn' = [fn EXCEPT !.pc = "done", !.result = Caught(fn.exc)]
    /\ UNCHANGED <<file, decks, colMod, notes, cards, clock, lock, leaked, faults, ops, proc,
                   prevCall>>

\* _handle_list_decks: decks = self.anki.get_decks()
LdGetDecks ==
    /\ fn.pc = "list_decks"
    /\ Invoke("get_decks", "gd_connect", "")
    /\ fn' = [fn EXCEPT !.pc = "ld_wait"]

\* _handle_list_decks: the response
LdReturn ==
    /\ fn.pc = "ld_wait"
    /\ Back
    /\ fn' = IF proc[1].ret.kind = "raise"
             THEN RaiseIn(fn, "storage")
             ELSE [fn EXCEPT !.pc = "done",
                             !.result = Return(Text("Available Anki decks", "",
                                                    Len(proc[1].ret.names),
                                                    proc[1].ret.names))]
    /\ UNCHANGED <<file, decks, colMod, notes, cards, clock, lock, leaked, faults, ops, proc,
                   prevCall>>

\* _handle_create_deck: the argument, deck_id = self.anki.create_deck(deck_name)
HcCreateDeck ==
    /\ fn.pc = "create_deck"
    /\ IF Missing(fn.arguments.deck_name)
       THEN /\ fn' = RaiseIn(fn, "deck_name parameter is required")
            /\ UNCHANGED <<file, decks, colMod, notes, cards, clock, lock, leaked, faults,
                           ops, proc, prevCall>>
       ELSE /\ Invoke("create_deck", "cd_connect", fn.arguments.deck_name)
            /\ fn' = [fn EXCEPT !.pc = "hc_wait"]

\* _handle_create_deck: the response
HcReturn ==
    /\ fn.pc = "hc_wait"
    /\ Back
    /\ fn' = IF proc[1].ret.kind = "raise"
             THEN RaiseIn(fn, "storage")
             ELSE [fn EXCEPT !.pc = "done",
                             !.result = Return(Text("[ok] Created deck", fn.arguments.deck_name,
                                                    proc[1].ret.val, <<>>))]
    /\ UNCHANGED <<file, decks, colMod, notes, cards, clock, lock, leaked, faults, ops, proc,
                   prevCall>>

\* FlashcardGenerator.generate_flashcards: the request to the language
\* model raises, or its response is parsed; every exception is re-raised.
GenerateFlashcards(gen) ==
    IF gen.kind = "response" /\ gen.doc.kind = "array"
    THEN [kind |-> "ok", cards |-> ValidatedCards(gen.doc.entries)]
    ELSE [kind |-> "raise", cards |-> <<>>]

\* _handle_generate_flashcards: the argument, available_decks = self.anki.get_decks()
GfGetDecks ==
    /\ fn.pc = "generate"
    /\ IF Missing(fn.arguments.content)
       THEN /\ fn' = RaiseIn(fn, "Content parameter is required")
            /\ UNCHANGED <<file, decks, colMod, notes, cards, clock, lock, leaked, faults,
                           ops, proc, prevCall>>
       ELSE /\ Invoke("get_decks", "gd_connect", "")
            /\ fn' = [fn EXCEPT !.pc = "gf_decks"]

\* _handle_generate_flashcards: flashcards = self.generator.generate_flashcards(...),
\* if not flashcards: return
GfGenerate ==
    /\ fn.pc = "gf_decks"
    /\ Back
    /\ LET out == GenerateFlashcards(fn.gen)
       IN fn' = IF proc[1].ret.kind = "raise" THEN RaiseIn(fn, "storage")
                ELSE IF out.kind = "raise" THEN RaiseIn(fn, "generator")
                ELSE IF out.cards = <<>>
                THEN [fn EXCEPT !.pc = "done",
                                !.result = Return(Text("No flashcard-worthy content found",
                                                       "", 0, <<>>))]
                ELSE [fn EXCEPT !.pc = "gf_loop", !.flashcards = out.cards,
                                !.rest = out.cards]
    /\ UNCHANGED <<file, decks, colMod, notes, cards, clock, lock, leaked, faults, ops, proc,
                   prevCall>>

\* for card in flashcards: note_id = self.anki.add_note(... deck_name=card["deck_name"] ...);
\* after the last card, the response with len(added_cards)
GfLoop ==
    /\ fn.pc = "gf_loop"
    /\ IF fn.rest = <<>>
       THEN /\ fn' = [fn EXCEPT !.pc = "done",
                                !.result = Return(Text("[ok] Successfully created", "",
                                                       Len(fn.added_cards),
                                                       [i \in 1..Len(fn.added_cards) |->
                                                            fn.added_cards[i].deck]))]
            /\ UNCHANGED <<file, decks, colMod, notes, cards, clock, lock, leaked, faults,
                           ops, proc, prevCall>>
       ELSE /\ Invoke("add_note", "cd_connect", Head(fn.rest).deck_name)
            /\ fn' = [fn EXCEPT !.pc = "gf_wait",
                                !.calls = Append(@, [deck_name |-> Head(fn.rest).deck_name,
                                                     kind |-> "none", id |-> 0])]

\* Faulty variant: the first card that fails ends the loop.
CardFailed_Abort(f) == [f EXCEPT !.pc = "gf_loop", !.rest = <<>>]

\* except Exception as e: logger.error(...); continue
CardFailed(f) == [f EXCEPT !.pc = "gf_loop", !.rest = Tail(@)]

\* added_cards.append({"id": note_id, "deck": card["deck_name"], ...})
CardAdded(f, note_id) ==
    [f EXCEPT !.pc = "gf_loop", !.rest = Tail(@),
              !.added_cards = Append(@, [id |-> note_id, deck |-> Head(f.rest).deck_name])]

\* _handle_generate_flashcards: add_note has returned an id or raised
GfAdded ==
    /\ fn.pc = "gf_wait"
    /\ Back
    /\ LET ret == proc[1].ret
           f == [fn EXCEPT !.calls[Len(fn.calls)].kind = ret.kind,
                           !.calls[Len(fn.calls)].id = ret.val]
       IN fn' = IF ret.kind = "raise" THEN CardFailed(f) ELSE CardAdded(f, ret.val)
    /\ UNCHANGED <<file, decks, colMod, notes, cards, clock, lock, leaked, faults, ops, proc,
                   prevCall>>

\* ------------------------------------------------------------ environment
\* The program counters at which a storage statement is about to run.
StoragePcs == {"ensure", "ce_tables", "ce_insert", "gd_connect", "gd_select", "cd_connect", "cd_select", "cd_update",
               "cd_commit", "an_connect", "an_insert_note", "an_insert_card",
               "an_update_col", "an_commit"}

\* The statement fails (sqlite3.Error: unable to open, disk I/O error,
\* database is locked after the busy timeout, ...).
Fault(p) ==
    /\ proc[p].pc \in StoragePcs
    /\ faults < MaxFaults
    /\ faults' = faults + 1
    /\ Raise(p)
    /\ UNCHANGED <<file, fn, decks, colMod, notes, cards, clock, ops, prevCall>>

\* The runtime finalizes the connections a caller left open: the pending
\* transaction is rolled back and the write lock released.
Collect(p) ==
    /\ leaked[p] > 0
    /\ leaked' = [leaked EXCEPT ![p] = 0]
    /\ lock' = IF lock = -p THEN 0 ELSE lock
    /\ UNCHANGED <<file, fn, decks, colMod, notes, cards, clock, faults, ops, proc, prevCall>>

\* ------------------------------------------------------------------ Next
Step(p) ==
    \/ CallGetDecks(p)
    \/ CallCreateDeck(p)
    \/ CallAddNote(p)
    \/ CallAddNotesBatch(p)
    \/ GdConnect(p)
    \/ GdSelect(p)
    \/ CdConnect(p)
    \/ CdSelect(p)
    \/ CdUpdate(p)
    \/ CdCommit(p)
    \/ AnConnect(p)
    \/ AnInsertNote(p)
    \/ AnInsertCard(p)
    \/ AnUpdateCol(p)
    \/ AnCommit(p)
    \/ BLoop(p)
    \/ Fault(p)
    \/ Collect(p)

\* One caller: operations run one after the other.
Next == Step(1)
Spec == Init /\ [][Next]_vars

\* Two callers on the same collection file: their statements interleave.
\* add_notes_batch is a loop of add_note calls of one caller and get_decks
\* writes nothing: the interleavings of create_deck and add_note are the
\* ones that matter.
StepConc(p) ==
    \/ CallCreateDeck(p)
    \/ CallAddNote(p)
    \/ CdConnect(p)
    \/ CdSelect(p)
    \/ CdUpdate(p)
    \/ CdCommit(p)
    \/ AnConnect(p)
    \/ AnInsertNote(p)
    \/ AnInsertCard(p)
    \/ AnUpdateCol(p)
    \/ AnCommit(p)
    \/ Fault(p)
    \/ Collect(p)

NextConc == \E p \in AllProcs : StepConc(p)
SpecConc == Init /\ [][NextConc]_vars

\* Two callers that add notes to the Default deck: the deck exists, so the
\* deck resolution only reads, and the interleavings are those of the id
\* generation and the inserts.
CallAddNoteDefault(p) == Begin(p, "add_note", "cd_connect", "Default", <<>>)

StepNotes(p) ==
    \/ CallAddNoteDefault(p)
    \/ CdConnect(p)
    \/ CdSelect(p)
    \/ AnConnect(p)
    \/ AnInsertNote(p)
    \/ AnInsertCard(p)
    \/ AnUpdateCol(p)
    \/ AnCommit(p)
    \/ Fault(p)
    \/ Collect(p)

NextNotes == \E p \in AllProcs : StepNotes(p)
SpecNotes == Init /\ [][NextNotes]_vars

\* What may be at collection_path before a handler is constructed: nothing;
\* a file that is no collection (no tables, no col row, a decks column that
\* does not parse); a collection this program has written.
MathDecks == DefaultDecks(1) \cup {[key |-> 2, id |-> 2, name |-> "Math", mod |-> 1]}
AllDecks == {[key |-> 1, id |-> 1, name |-> "Default", mod |-> 1],
             [key |-> 2, id |-> 2, name |-> "math", mod |-> 1],
             [key |-> 3, id |-> 3, name |-> "Math", mod |-> 1]}
Written(dd, ns, cs) == [file |-> "ok", decks |-> dd, mod |-> 1, notes |-> ns, cards |-> cs]
OnDisk ==
    {[file |-> f, decks |-> {}, mod |-> 0, notes |-> {}, cards |-> {}] :
        f \in {"missing", "empty", "norow", "corrupt"}}
    \cup {Written(dd, {}, {}) : dd \in {DefaultDecks(1), MathDecks, AllDecks}}
    \cup {Written(dd, {NoteRow(1, 1)}, {CardRow(1, 2, 1)}) : dd \in {MathDecks, AllDecks}}

InitOpen ==
    /\ \E d \in OnDisk :
        /\ file = d.file
        /\ decks = d.decks
        /\ colMod = d.mod
        /\ notes = d.notes
        /\ cards = d.cards
    /\ clock = 1
    /\ lock = 0
    /\ leaked = [p \in AllProcs |-> 0]
    /\ faults = 0
    /\ ops = 0
    /\ proc = [p \in AllProcs |-> IdleProc]
    /\ prevCall = NoCall
    /\ fn = NoFn

\* get_decks is a method of a handler: one has been constructed, which on
\* an existing file changes nothing, so that the file exists is enough.
OpenGetDecks(p) == file # "missing" /\ CallGetDecks(p)

\* One caller constructs handlers on the path and lists the decks.
StepOpen(p) ==
    \/ CallConstruct(p)
    \/ EnsureCollectionExists(p)
    \/ CeTables(p)
    \/ CeInsert(p)
    \/ OpenGetDecks(p)
    \/ GdConnect(p)
    \/ GdSelect(p)
    \/ Fault(p)
    \/ Collect(p)

NextOpen == StepOpen(1)
SpecOpen == InitOpen /\ [][NextOpen]_vars

\* The tags the callers use: "a", "bc", "d e" and the empty string.
TagNames == {<<"a">>, <<"b", "c">>, <<"d", " ", "e">>, <<>>}
TagLists == UNION {[1..n -> TagNames] : n \in 0..MaxTags}

\* add_note is called with tags = None or with a list of tags.
InitTags ==
    /\ fn \in {[pc |-> "call", tags |-> t, tags_str |-> <<>>] :
                  t \in {None} \cup {Some(l) : l \in TagLists}}
    /\ clock = 1
    /\ decks = DefaultDecks(1)
    /\ colMod = 1
    /\ notes = {}
    /\ cards = {}
    /\ lock = 0
    /\ leaked = [p \in AllProcs |-> 0]
    /\ faults = 0
    /\ ops = 0
    /\ proc = [p \in AllProcs |-> IdleProc]
    /\ prevCall = NoCall
    /\ file = "ok"

NextTags == AnTagsStr
SpecTags == InitTags /\ [][NextTags]_vars

\* The store while a computation of add_note is examined by itself.
StoreAtRest ==
    /\ clock = 1
    /\ decks = DefaultDecks(1)
    /\ colMod = 1
    /\ notes = {}
    /\ cards = {}
    /\ lock = 0
    /\ leaked = [p \in AllProcs |-> 0]
    /\ faults = 0
    /\ ops = 0
    /\ proc = [p \in AllProcs |-> IdleProc]
    /\ prevCall = NoCall
    /\ file = "ok"

\* n times the character c
Rep(c, n) == [i \in 1..n |-> c]

\* The fronts the callers use: short ones, and ones whose length is near
\* the length of the sort field, over a one-byte and a two-byte character.
FrontChars == {"a", "e'"}
FrontTails == UNION {[1..n -> FrontChars] : n \in 0..MaxTail}
Fronts == {Rep(c, n) \o t : c \in FrontChars, n \in {0} \cup ((SfldLen - 2)..SfldLen),
                            t \in FrontTails}
Backs == {<<"p">>, <<"q">>}

NoteArgs(front, back) ==
    [front |-> front, back |-> back, done |-> FALSE, flds |-> <<>>, sfld |-> <<>>, csum |-> 0]

\* Two calls of add_note, each with a front and a back.
InitSort ==
    /\ fn \in {[pc |-> "sort", notes |-> <<NoteArgs(f1, b1), NoteArgs(f2, b2)>>] :
                  f1 \in Fronts, b1 \in Backs, f2 \in Fronts, b2 \in Backs}
    /\ StoreAtRest

NextSort == \E i \in {1, 2} : AnSortField(i)
SpecSort == InitSort /\ [][NextSort]_vars

\* The entries the language model may return: a value that is no object,
\* or an object whose front and back are a text, the empty text or
\* missing, whose deck_name is a text or missing, and whose tags are a
\* list, a str or missing.
ModelEntries ==
    {NotADict} \cup
    [obj : {TRUE},
     front : {JStr("Q"), JStr(""), JAbsent},
     back : {JStr("A"), JStr(""), JAbsent},
     deck_name : {JStr("Math"), JAbsent},
     tags : {JList(<<"t">>), JStr("t"), JAbsent}]

\* The response of the language model: text that is no JSON, a JSON value
\* that is no array, or an array of entries.
ModelDocs ==
    {[kind |-> k, entries |-> <<>>] : k \in {"invalid", "object"}}
    \cup {[kind |-> "array", entries |-> e] :
             e \in UNION {[1..n -> ModelEntries] : n \in 0..MaxCards}}

InitParse ==
    /\ fn \in {[pc |-> "parse", doc |-> d, out |-> [kind |-> "none", cards |-> <<>>]] :
                  d \in ModelDocs}
    /\ StoreAtRest

NextParse == ParseFlashcards
SpecParse == InitParse /\ [][NextParse]_vars

\* A call of a tool: the name, the arguments, and what the language model
\* will answer if it is asked.
ToolNames == {"list_anki_decks", "generate_flashcards", "create_anki_deck", "delete_deck"}

\* The entries of the language model's answer: a value that is no object,
\* a card for the deck "Math", a card without a deck.
ToolEntries ==
    {NotADict} \cup
    [obj : {TRUE}, front : {JStr("Q")}, back : {JStr("A")},
     deck_name : {JStr("Math"), JAbsent}, tags : {JList(<<"t">>)}]

Generated ==
    {[kind |-> "api_error", doc |-> [kind |-> "invalid", entries |-> <<>>]]}
    \cup {[kind |-> "response", doc |-> [kind |-> "invalid", entries |-> <<>>]]}
    \cup {[kind |-> "response", doc |-> [kind |-> "array", entries |-> e]] :
             e \in UNION {[1..n -> ToolEntries] : n \in 0..MaxCards}}

ToolCall(name, content, deck_name, gen) ==
    [pc |-> "call_tool", name |-> name,
     arguments |-> [content |-> content, deck_name |-> deck_name],
     gen |-> gen, flashcards |-> <<>>, rest |-> <<>>, added_cards |-> <<>>,
     calls |-> <<>>, handlers |-> <<>>, exc |-> "", result |-> NoResult]

NoGen == [kind |-> "api_error", doc |-> [kind |-> "invalid", entries |-> <<>>]]

InitTool ==
    /\ fn \in {ToolCall(n, Absent, Absent, NoGen) : n \in ToolNames}
              \cup {ToolCall("create_anki_deck", Absent, d, NoGen) : d \in Names \cup {""}}
              \cup {ToolCall("generate_flashcards", "", Absent, NoGen)}
              \cup {ToolCall("generate_flashcards", "text", Absent, g) : g \in Generated}
    /\ StoreAtRest

NextTool ==
    \/ CallTool
    \/ CallToolExcept
    \/ LdGetDecks
    \/ LdReturn
    \/ HcCreateDeck
    \/ HcReturn
    \/ GfGetDecks
    \/ GfGenerate
    \/ GfLoop
    \/ GfAdded
    \/ GdConnect(1)
    \/ GdSelect(1)
    \/ CdConnect(1)
    \/ CdSelect(1)
    \/ CdUpdate(1)
    \/ CdCommit(1)
    \/ AnConnect(1)
    \/ AnInsertNote(1)
    \/ AnInsertCard(1)
    \/ AnUpdateCol(1)
    \/ AnCommit(1)
    \/ Fault(1)
    \/ Collect(1)

SpecTool == InitTool /\ [][NextTool]_vars

\* ================================================================ claims
Idle(p) == proc[p].pc = "idle"
Returned(p, top) == Idle(p) /\ proc[p].top = top /\ proc[p].ret.kind = "ok"
RaisedFrom(p, top) == Idle(p) /\ proc[p].top = top /\ proc[p].ret.kind = "raise"

\* C1: two create_deck(name) calls in sequence, with no other operation in
\* between, return the same id, and the deck document gains exactly one
\* entry over the two calls if the name was new and none if it existed; on
\* a fresh store the first new name gets id 2.
C1_CreateDeckIdempotent ==
    \A p \in AllProcs :
        Returned(p, "create_deck") =>
            LET me == proc[p] IN
            /\ (me.n0 = 1 /\ me.deck_name # "Default") => me.ret.val = 2
            /\ (me.prev # NoCall /\ me.prev.name = me.deck_name) =>
                   /\ me.ret.val = me.prev.val
                   /\ Cardinality(decks) - me.prev.n0 <= 1
                   /\ Cardinality(decks) - me.prev.n0 = (IF me.prev.existed THEN 0 ELSE 1)

\* The second of two create_deck("Math") calls has returned 2, the deck
\* having been created by the first.
C1_Witness ==
    \E p \in AllProcs :
        /\ Returned(p, "create_deck")
        /\ proc[p].prev # NoCall
        /\ proc[p].prev.name = proc[p].deck_name
        /\ ~proc[p].prev.existed
        /\ proc[p].prev.n0 = 1
        /\ proc[p].ret.val = 2

\* C2: no two entries of the persisted deck document have the same name
\* (exact, case-sensitive match).
C2_DeckNamesUnique ==
    \A e1 \in decks : \A e2 \in decks : e1.name = e2.name => e1 = e2

\* The document holds "Math" and "math" next to "Default", after a call
\* that named an existing deck.
C2_Witness ==
    /\ {e.name : e \in decks} = {"Default", "Math", "math"}
    /\ \E p \in AllProcs : Idle(p) /\ proc[p].existed /\ proc[p].top \in {"create_deck", "add_note"}
       /\ proc[p].ret.kind = "ok"

\* C3: a deck that create_deck creates gets the id max(ids it read) + 1,
\* returned and stored under that key; all stored ids are pairwise distinct
\* and each entry's key equals its id.
C3_DeckIdsAssigned ==
    /\ \A e \in decks : e.key = e.id
    /\ \A e1 \in decks : \A e2 \in decks : e1.id = e2.id => e1 = e2
    /\ \A p \in AllProcs :
        LET me == proc[p] IN
        /\ me.pc \in {"cd_update", "cd_commit"} =>
               me.new_deck_id = Max({e.id : e \in me.decks_data}) + 1
        /\ (Returned(p, "create_deck") /\ me.new_deck_id # 0) =>
               /\ me.ret.val = Max({e.id : e \in me.decks_data}) + 1
               /\ \E e \in decks : e.key = me.ret.val /\ e.id = me.ret.val
                                   /\ e.name = me.deck_name

\* create_deck has created a third deck and returned 3.
C3_Witness ==
    \E p \in AllProcs :
        /\ Returned(p, "create_deck")
        /\ proc[p].new_deck_id = 3
        /\ proc[p].ret.val = 3
        /\ Cardinality(decks) = 3

\* C4: two create_deck calls for different new names, however their
\* statements interleave, return different ids, and once both have
\* returned the deck document holds both decks, each under the id returned
\* to its caller.
C4_ConcurrentCreatesKeepBoth ==
    \A p \in AllProcs : \A q \in AllProcs \ {p} :
        ( /\ Returned(p, "create_deck") /\ proc[p].new_deck_id # 0
          /\ Returned(q, "create_deck") /\ proc[q].new_deck_id # 0
          /\ proc[p].deck_name # proc[q].deck_name ) =>
            /\ proc[p].ret.val # proc[q].ret.val
            /\ \E e \in decks : e.id = proc[p].ret.val /\ e.name = proc[p].deck_name
            /\ \E e \in decks : e.id = proc[q].ret.val /\ e.name = proc[q].deck_name

\* add_note has just returned a note id to caller p or to the loop of
\* add_notes_batch.
JustAdded(p) ==
    \/ Returned(p, "add_note")
    \/ proc[p].top = "add_notes_batch" /\ proc[p].pc = "b_loop" /\ proc[p].note_ids # <<>>

\* C5: a successful add_note adds exactly one Note row and one Card row:
\* the Note's id is the returned id, the Card's nid is the returned id and
\* its did is the id of the deck resolved for deck_name (2 for a new deck
\* on a fresh store).
C5_AddNoteOneNoteOneCard ==
    \A p \in AllProcs :
        JustAdded(p) =>
            LET me == proc[p] IN
            /\ Returned(p, "add_note") => me.ret.val = me.note_id
            /\ Cardinality(me.added.notes) = 1
            /\ \A n \in me.added.notes : n.id = me.note_id
            /\ Cardinality(me.added.cards) = 1
            /\ \A c \in me.added.cards : c.nid = me.note_id /\ c.did = me.deck_id
            /\ notes = me.notes0 \cup me.added.notes
            /\ cards = me.cards0 \cup me.added.cards
            /\ \E e \in decks : e.id = me.deck_id /\ e.name = me.deck_name
            /\ (Returned(p, "add_note") /\ me.n0 = 1 /\ me.deck_name # "Default") =>
                   me.deck_id = 2

\* add_note(deck_name = "Math") on the fresh store has returned, and its
\* card is in deck 2.
C5_Witness ==
    \E p \in AllProcs :
        /\ Returned(p, "add_note")
        /\ proc[p].deck_name = "Math"
        /\ proc[p].n0 = 1
        /\ proc[p].notes0 = {}
        /\ \E c \in cards : c.nid = proc[p].ret.val /\ c.did = 2

\* C6: in every committed state each Note row has exactly one Card row
\* referencing it and each Card row references a present Note row; an
\* add_note that fails has added no Note row and no Card row.
C6_NoteCardOneUnit ==
    /\ \A n \in notes : Cardinality({c \in cards : c.nid = n.id}) = 1
    /\ \A c \in cards : \E n \in notes : n.id = c.nid
    /\ \A p \in AllProcs :
        (RaisedFrom(p, "add_note") \/ RaisedFrom(p, "add_notes_batch")) =>
            notes = proc[p].notes0 /\ cards = proc[p].cards0

\* An add_note has failed at its Card insert, after its Note insert, on a
\* store that holds a note.
C6_Witness ==
    \E p \in AllProcs :
        /\ RaisedFrom(p, "add_note")
        /\ proc[p].failed_at = "an_insert_card"
        /\ notes # {}

\* C7: add_notes_batch calls add_note once per record in input order; when
\* record k is the first to fail the notes of records 1..k-1 stay
\* committed, the error reaches the caller and no later record is
\* attempted; with no failure it returns one note id per record, in order.
C7_BatchStopsAtFirstFailure ==
    \A p \in AllProcs :
        LET me == proc[p] IN
        /\ RaisedFrom(p, "add_notes_batch") =>
               /\ me.attempts = Len(me.note_ids) + 1
               /\ me.attempts <= Len(me.input)
               /\ me.batch = SubSeq(me.input, me.attempts, Len(me.input))
               /\ \A i \in 1..Len(me.note_ids) : me.note_ids[i] \in NoteIds(notes)
        /\ Returned(p, "add_notes_batch") =>
               /\ Len(me.ret.ids) = Len(me.input)
               /\ me.attempts = Len(me.input)
               /\ \A i \in 1..Len(me.input) :
                      \E c \in cards : \E e \in decks :
                          /\ c.nid = me.ret.ids[i]
                          /\ e.id = c.did
                          /\ e.name = NoteGet(me.input[i])
               /\ \A i \in 1..Len(me.input) : \A j \in 1..Len(me.input) :
                      i # j => me.ret.ids[i] # me.ret.ids[j]

\* A batch of three records has failed at its second record: the first
\* note is stored, the third record was never attempted.
C7_Witness ==
    \E p \in AllProcs :
        /\ RaisedFrom(p, "add_notes_batch")
        /\ Len(proc[p].input) = 3
        /\ proc[p].attempts = 2
        /\ Len(proc[p].note_ids) = 1
        /\ proc[p].note_ids[1] \in NoteIds(notes)

\* C8: col.mod is never older than the modified time of a stored deck,
\* note or card, and it never decreases.
C8_ModNewest ==
    /\ \A e \in decks : e.mod <= colMod
    /\ \A n \in notes : n.mod <= colMod
    /\ \A c \in cards : c.mod <= colMod

C8_ColModAdvances == []C8_ModNewest /\ [][colMod' >= colMod]_vars

\* C9: the fresh store's deck document is exactly {id 1, "Default"}, a
\* get_decks on it returns ["Default"], and a deck with id 1 named
\* "Default" is present in every later state.
C9_DefaultDeckPresent ==
    /\ \E e \in decks : e.key = 1 /\ e.id = 1 /\ e.name = "Default"
    /\ ops = 0 => {<<e.key, e.id, e.name>> : e \in decks} = {<<1, 1, "Default">>}
    /\ \A p \in AllProcs :
        (Returned(p, "get_decks") /\ ops = 1) => proc[p].ret.names = <<"Default">>

\* Two decks and a note have been added, and deck 1 is still "Default".
C9_Witness ==
    /\ Cardinality(decks) = 3
    /\ notes # {}
    /\ \E e \in decks : e.id = 1 /\ e.name = "Default"

\* C10: whenever no operation is in progress, every connection the
\* operations opened has been closed.
C10_HandlesReleased ==
    \A p \in AllProcs : Idle(p) => (leaked[p] = 0 /\ ~proc[p].conn)

\* C11: get_decks never raises: whenever opening, reading or parsing fails,
\* or the col row is missing, it returns exactly ["Default"], whatever the
\* file holds.
C11_GetDecksNeverRaises ==
    \A p \in AllProcs :
        (Idle(p) /\ proc[p].top = "get_decks") =>
            /\ proc[p].ret.kind = "ok"
            /\ (proc[p].failed_at # "" \/ file # "ok") =>
                   proc[p].ret.names = <<"Default">>

\* The read of a get_decks has failed on a collection of three decks, and
\* the call has returned ["Default"].
C11_Witness ==
    \E p \in AllProcs :
        /\ Returned(p, "get_decks")
        /\ proc[p].failed_at = "gd_select"
        /\ file = "ok"
        /\ Cardinality(decks) = 3
        /\ proc[p].ret.names = <<"Default">>

\* C12: a get_decks whose read succeeds returns the names of the decks of
\* the persisted deck document, each as often as the document has it, in
\* ascending order of their code points.
C12_GetDecksSortedNames ==
    \A p \in AllProcs :
        (Returned(p, "get_decks") /\ proc[p].failed_at = "" /\ file = "ok") =>
            LET l == proc[p].ret.names IN
            /\ Len(l) = Cardinality(decks)
            /\ \A e \in decks :
                   Cardinality({i \in 1..Len(l) : l[i] = e.name})
                       = Cardinality({d \in decks : d.name = e.name})
            /\ \A i \in 1..Len(l) : \A j \in 1..Len(l) :
                   i < j => ~StrLess(l[j], l[i])

\* get_decks has returned ["Default", "Math", "math"] from a document that
\* holds "math" (id 2) before "Math" (id 3).
C12_Witness ==
    \E p \in AllProcs :
        /\ Returned(p, "get_decks")
        /\ proc[p].failed_at = ""
        /\ proc[p].ret.names = <<"Default", "Math", "math">>
        /\ \E e \in decks : e.id = 2 /\ e.name = "math"
        /\ \E e \in decks : e.id = 3 /\ e.name = "Math"

\* The statements of create_deck.
CdPcs == {"cd_connect", "cd_select", "cd_update", "cd_commit"}

\* C13: a create_deck or add_note in which a storage statement fails
\* raises to its caller and returns no id; the call ends at the failing
\* statement, which is not run again; nothing of the call is stored, and
\* when the failure is in the deck resolution of add_note the call has
\* generated no note id and inserted no row.
C13_WriteFailuresPropagate ==
    \A p \in AllProcs :
        LET me == proc[p] IN
        (me.top \in {"create_deck", "add_note"} /\ me.failed_at # "") =>
            /\ Idle(p)
            /\ me.ret = Raised
            /\ notes = me.notes0
            /\ cards = me.cards0
            /\ (me.top = "add_note" /\ me.failed_at \in CdPcs) =>
                   /\ me.deck_id = 0
                   /\ me.note_id = 0
                   /\ me.added = NoAdded

\* An add_note for a new deck has failed at the UPDATE of its create_deck
\* and has raised.
C13_Witness ==
    \E p \in AllProcs :
        /\ RaisedFrom(p, "add_note")
        /\ proc[p].failed_at = "cd_update"
        /\ proc[p].deck_name = "Math"
        /\ ~proc[p].existed

\* C14: no two Note rows have the same id, no two have the same guid, every
\* guid is a non-empty string, and no two Card rows have the same id.
C14_StoredIdsUnique ==
    /\ \A n1 \in notes : \A n2 \in notes : n1.id = n2.id => n1 = n2
    /\ \A n1 \in notes : \A n2 \in notes : n1.guid = n2.guid => n1 = n2
    /\ \A n \in notes : Len(n.guid) > 0
    /\ \A c1 \in cards : \A c2 \in cards : c1.id = c2.id => c1 = c2

\* A note is stored, and an add_note whose generated id was new has
\* been rejected at its Note insert because its guid was stored.
C14_Witness ==
    /\ Cardinality(notes) >= 1
    /\ \E p \in AllProcs :
        /\ RaisedFrom(p, "add_note")
        /\ proc[p].failed_at = "an_insert_note"
        /\ proc[p].note_id \notin NoteIds(notes)
        /\ Guid(proc[p].note_id) \in Guids(notes)
        /\ faults = 0

\* C15: the id an add_note returns is greater than the id of every note
\* that was stored when the call started, that is, of every note whose
\* add_note had returned before.
C15_NoteIdsIncrease ==
    \A p \in AllProcs :
        JustAdded(p) => \A n \in proc[p].notes0 : n.id < proc[p].note_id

\* C16: every Card row's nid is the id of exactly one Note row, and its did
\* is the id of a deck of the persisted deck document.
C16_ReferentialIntegrity ==
    \A c \in cards :
        /\ Cardinality({n \in notes : n.id = c.nid}) = 1
        /\ \E e \in decks : e.id = c.did

\* C17: a deck (id, name) of the persisted deck document is in the document
\* of every later state.
C17_DecksNeverDeleted ==
    [][\A e \in decks : \E d \in decks' : d.id = e.id /\ d.name = e.name]_vars

\* C18: a constructor that finds a file at the path opens no connection
\* and writes nothing: the file's condition (tables, col row), the deck
\* document, col.mod and the Note and Card rows are, during and after the
\* call, what they were when it started; unless the call itself fails it
\* returns.
C18_EnsureNoWrite ==
    \A p \in AllProcs :
        LET me == proc[p] IN
        (me.top = "construct" /\ me.store0 # NoStore) =>
            /\ file = me.store0.file
            /\ decks = me.store0.decks
            /\ colMod = me.store0.mod
            /\ notes = me.notes0
            /\ cards = me.cards0
            /\ ~me.conn
            /\ (Idle(p) /\ me.failed_at = "") => me.ret.kind = "ok"

\* A handler has been constructed on a collection of three decks and a
\* note.
C18_Witness ==
    \E p \in AllProcs :
        /\ Returned(p, "construct")
        /\ proc[p].store0.file = "ok"
        /\ Cardinality(decks) = 3
        /\ notes # {}

\* C19: a create_deck for a name that is in the deck document writes
\* nothing: during and after the call the deck document, col.mod and the
\* Note and Card rows are what they were when it started, and it returns
\* the id of the deck of that name.
C19_ExistingDeckReadOnly ==
    \A p \in AllProcs :
        LET me == proc[p] IN
        (me.top = "create_deck" /\ me.store0 # NoStore) =>
            /\ decks = me.store0.decks
            /\ colMod = me.store0.mod
            /\ notes = me.notes0
            /\ cards = me.cards0
            /\ me.txn = NoTxn
            /\ (Idle(p) /\ me.failed_at = "") =>
                   /\ me.ret.kind = "ok"
                   /\ \E e \in decks : e.name = me.deck_name /\ e.id = me.ret.val
                   /\ ~me.conn

\* create_deck("Math") has returned 2 on a store that held the deck and a
\* note when the call started.
C19_Witness ==
    \E p \in AllProcs :
        /\ Returned(p, "create_deck")
        /\ proc[p].store0 # NoStore
        /\ proc[p].deck_name = "Math"
        /\ proc[p].ret.val = 2
        /\ proc[p].notes0 # {}

\* The length of the first k tags of ts with one space after each.
RECURSIVE Span(_, _)
Span(ts, k) == IF k = 0 THEN 0 ELSE Span(ts, k - 1) + Len(ts[k]) + 1

\* C20: the stored tags string of a non-empty tag list begins with a
\* space, holds the tags in input order, each directly after the space
\* that follows its predecessor and directly followed by one space, and
\* ends with the space after the last tag; for tags = None and for the
\* empty list it is exactly two spaces.
C20_TagsSerialized ==
    fn.pc = "stored" =>
        LET ts == IF fn.tags.some THEN fn.tags.val ELSE <<>>
            out == fn.tags_str
        IN
        /\ ts = <<>> => out = <<" ", " ">>
        /\ ts # <<>> =>
               /\ Len(out) = 1 + Span(ts, Len(ts))
               /\ out[1] = " "
               /\ \A k \in 1..Len(ts) :
                      /\ SubSeq(out, 2 + Span(ts, k - 1), Span(ts, k)) = ts[k]
                      /\ out[1 + Span(ts, k - 1)] = " "
                      /\ out[1 + Span(ts, k)] = " "

\* The tags ["bc", "a"] have been serialized as " bc a ".
C20_Witness ==
    /\ fn.pc = "stored"
    /\ fn.tags = Some(<< <<"b", "c">>, <<"a">> >>)
    /\ fn.tags_str = <<" ", "b", "c", " ", "a", " ">>

\* The first n characters of str, or all of str when it has fewer.
Prefix(str, n) == [i \in 1..(IF Len(str) < n THEN Len(str) ELSE n) |-> str[i]]

\* C21: the stored sort field of a note is the first 64 characters of its
\* front (all of the front when it is shorter); the stored checksum is the
\* value, as a non-negative integer, of the first 8 hex digits of the
\* digest of the UTF-8 bytes of the sort field; two notes whose fronts
\* agree on their first 64 characters have the same sort field and the
\* same checksum, whatever their backs.
C21_SortFieldAndChecksum ==
    fn.pc = "sort" =>
        /\ \A i \in {1, 2} :
               LET n == fn.notes[i] IN
               n.done =>
                   /\ Len(n.sfld) <= SfldLen
                   /\ n.sfld = Prefix(n.front, SfldLen)
                   /\ n.csum >= 0
                   /\ HexDigits(n.csum, 8) = Sha1Hex8(Utf8(n.sfld))
        /\ (/\ fn.notes[1].done
            /\ fn.notes[2].done
            /\ Prefix(fn.notes[1].front, SfldLen) = Prefix(fn.notes[2].front, SfldLen)) =>
               /\ fn.notes[1].sfld = fn.notes[2].sfld
               /\ fn.notes[1].csum = fn.notes[2].csum

\* Two notes with fronts of 66 and 65 characters that differ only after
\* the 64th, and with different backs, have the same sort field of 64
\* characters and the same checksum.
C21_Witness ==
    /\ fn.pc = "sort"
    /\ fn.notes[1].done
    /\ fn.notes[2].done
    /\ Len(fn.notes[1].front) = SfldLen + 2
    /\ Len(fn.notes[2].front) = SfldLen + 1
    /\ fn.notes[1].front[SfldLen + 1] # fn.notes[2].front[SfldLen + 1]
    /\ fn.notes[1].back # fn.notes[2].back
    /\ Len(fn.notes[1].sfld) = SfldLen
    /\ fn.notes[1].sfld = fn.notes[2].sfld
    /\ fn.notes[1].csum = fn.notes[2].csum
    /\ fn.notes[1].flds # fn.notes[2].flds

\* The positions of the entries that are objects with a front and a back.
KeptAt(entries) == {i \in 1..Len(entries) : Kept(entries[i])}

\* C22: every record _parse_flashcards returns has a non-empty front and a
\* non-empty back, a deck name ("Default" when the entry has none) and a
\* list of tags (empty when the entry has none or has tags that are no
\* list); the records are those of the entries that are objects with
\* front and back, in the order of the entries.
C22_RecordsValidated ==
    (fn.pc = "parsed" /\ fn.out.kind = "ok") =>
        LET es == fn.doc.entries
            cs == fn.out.cards
        IN
        /\ Len(cs) = Cardinality(KeptAt(es))
        /\ \A i \in KeptAt(es) :
               LET c == cs[Cardinality({j \in KeptAt(es) : j <= i})] IN
               /\ es[i].front.t = "str" => c.front = es[i].front.s
               /\ es[i].back.t = "str" => c.back = es[i].back.s
               /\ es[i].deck_name.t = "absent" => c.deck_name = "Default"
               /\ es[i].deck_name.t = "str" => c.deck_name = es[i].deck_name.s
               /\ es[i].tags.t = "list" => c.tags = es[i].tags.l
               /\ es[i].tags.t # "list" => c.tags = <<>>
        /\ \A k \in 1..Len(cs) :
               /\ cs[k].front # ""
               /\ cs[k].back # ""

\* C23: the Card an add_note(deck_name = n) has stored has a did that the
\* persisted deck document maps to a deck named n, in the state in which
\* the call returns and in every later state.
C23_CardInRequestedDeck ==
    \A p \in AllProcs :
        Returned(p, "add_note") =>
            \A c \in proc[p].added.cards :
                /\ c \in cards
                /\ \E e \in decks : e.id = c.did /\ e.name = proc[p].deck_name

\* The add_note calls of the handler that returned an id.
Succeeded == {i \in 1..Len(fn.calls) : fn.calls[i].kind = "ok"}

\* C24: while the generate_flashcards handler adds the generated cards, its
\* add_note calls so far are for the first cards of the list, one call per
\* card and in the order of the list; when the handler has answered, every
\* card has had its call, whether or not earlier calls raised, and the
\* count in the answer is the number of calls that returned an id.
C24_PerCardFailuresIsolated ==
    fn.flashcards # <<>> =>
        /\ Len(fn.calls) <= Len(fn.flashcards)
        /\ \A i \in 1..Len(fn.calls) : fn.calls[i].deck_name = fn.flashcards[i].deck_name
        /\ fn.pc = "done" =>
               /\ Len(fn.calls) = Len(fn.flashcards)
               /\ \A i \in 1..Len(fn.calls) : fn.calls[i].kind \in {"ok", "raise"}
               /\ fn.result.kind = "return"
               /\ Len(fn.result.content) = 1
               /\ fn.result.content[1].head = "[ok] Successfully created"
               /\ fn.result.content[1].n = Cardinality(Succeeded)
               /\ \A i \in Succeeded : fn.calls[i].id \in NoteIds(notes)

\* The handler has answered after a call that raised was followed by a
\* call, for a later card, that returned an id.
C24_Witness ==
    /\ fn.pc = "done"
    /\ \E i, j \in 1..Len(fn.calls) :
           i < j /\ fn.calls[i].kind = "raise" /\ fn.calls[j].kind = "ok"
    /\ fn.result.content[1].n = 1

\* The calls that fail: an unknown tool name, a missing required argument,
\* a generator that raises, a create_deck that raises.
Fails ==
    \/ fn.name \notin {"list_anki_decks", "generate_flashcards", "create_anki_deck"}
    \/ fn.name = "create_anki_deck" /\ Missing(fn.arguments.deck_name)
    \/ fn.name = "create_anki_deck" /\ proc[1].top = "create_deck" /\ proc[1].ret.kind = "raise"
    \/ fn.name = "generate_flashcards" /\ Missing(fn.arguments.content)
    \/ fn.name = "generate_flashcards" /\ GenerateFlashcards(fn.gen).kind = "raise"

\* C25: call_tool never raises and runs at most one handler, none for an
\* unknown name; when it has answered a call that fails (unknown name,
\* missing required argument, generator error, storage error) the answer
\* is one text that begins with "Error: ".
C25_DispatcherNeverRaises ==
    /\ fn.result.kind # "raise"
    /\ Len(fn.handlers) <= 1
    /\ fn.name = "delete_deck" => fn.handlers = <<>>
    /\ fn.pc = "done" =>
           /\ fn.result.kind = "return"
           /\ Len(fn.result.content) = 1
           /\ Fails => fn.result.content[1].head = "Error: "
           /\ fn.exc # "" => fn.result.content[1].head = "Error: "

\* call_tool has answered a create_anki_deck call whose create_deck raised
\* a storage error.
C25_Witness ==
    /\ fn.pc = "done"
    /\ fn.name = "create_anki_deck"
    /\ proc[1].top = "create_deck" /\ proc[1].ret.kind = "raise"
    /\ fn.handlers = <<"create_deck">>
    /\ fn.result.content[1].head = "Error: "

====
